---- MODULE Spec2Model ----
(***************************************************************************)
(* Reconciliation pipeline of transform.py: one resource processor         *)
(* (WaterStationProcessor, MedicalStationProcessor, RestroomProcessor,     *)
(* ShowerStationProcessor) with its operations extract_from_csv,           *)
(* extract_from_api and sync_source_to_db and its two snapshot writers,    *)
(* and main, which reads the export and runs the processors in turn.       *)
(*                                                                         *)
(* Encoding of Python values: every scalar is a string.  None and the      *)
(* pandas missing value have their own tokens; a number is written as its  *)
(* numeral ("0" is the number 0, "7" the number 7), so the only falsy      *)
(* scalars are None, the empty string and "0".                             *)
(***************************************************************************)
EXTENDS Integers, Sequences, FiniteSets, TLC

\* ------------------------------------------------------------- bounds ----
MaxPlacemarks == 2
MaxStations == 3
MaxRemote == 2
MaxCallStations == 1

\* ------------------------------------------------------------- values ----
None == "<None>"
NaN == "<NaN>"

Resources == {"water", "medical", "restroom", "shower"}

\* bool(v) of a scalar
Truthy(v) == v \notin {None, "", "0"}

\* pd.isna(v)
IsNa(v) == v \in {None, NaN}

\* str.strip() on the strings of the model
Strip(s) == IF s = " " THEN "" ELSE s

\* The substring tested by the resource's name filter.
Keyword == [water |-> "kw_water", medical |-> "kw_medical",
            restroom |-> "kw_restroom", shower |-> "kw_shower"]

\* The folder of the resource in the export.  The medical, restroom and
\* shower filters compare it; the water filter compares no folder.
FolderMatch == [water |-> "F_water", medical |-> "F_medical",
                restroom |-> "F_restroom", shower |-> "F_shower"]

\* Names of the model that contain the keyword of resource r.
KeywordNames(r) == {"A " \o Keyword[r], "B " \o Keyword[r]}

PlainNames == {"C"}

\* `kw in name` for a string name
Contains(kw, name) == \E r \in Resources : kw = Keyword[r] /\ name \in KeywordNames(r)

\* min(idx) of a non-empty set of indices
FirstOf(idx) == CHOOSE i \in idx : \A j \in idx : i <= j

\* ------------------------------------------------------------- state -----
VARIABLES
    res,             \* which processor class this instance is
    placemarks,      \* csv_reader.placemarks
    csv_stations,    \* self.csv_water_stations / csv_medical_stations / ...
    api_stations,    \* self.api_water_stations / api_medical_stations / ...
    pc,              \* the call main makes next on the processor
    raised,          \* the exception the last call let escape ("none" if it returned)
    fetch_ret,       \* the response extract_from_api got and what it returned
    sync_ret,        \* what sync_source_to_db computed and returned
    log_file,        \* the operation log file on disk
    save_ret,        \* the last call of save_json_requests and what it returned
    mode,            \* the command-line mode of main
    input_file,      \* placemarks.csv on disk
    snapshots,       \* the source and remote snapshot files of this processor
    write_failed     \* a write of this run has failed

vars == <<res, placemarks, csv_stations, api_stations,
          pc, raised, fetch_ret, sync_ret, log_file, save_ret,
          mode, input_file, snapshots, write_failed>>

\* -------------------------------------------------- extract_from_csv -----
\* The filter of the first loop of extract_from_csv.  The water processor
\* tests the name only; the others test folder == ... or keyword in name.
Selected(r, p) ==
    IF r = "water" THEN Contains(Keyword[r], p.name)
    ELSE p.folder = FolderMatch[r] \/ Contains(Keyword[r], p.name)

\* `keyword in name` raises TypeError when name is the float NaN; the
\* `or` of the other processors evaluates it only if the folder differs.
FilterRaises(r, p) ==
    /\ p.name = NaN
    /\ (r = "water" \/ p.folder # FolderMatch[r])

\* float(latitude) of a numeric cell: the same number.
ToFloat(v) == v

\* description -> notes: NaN and the text 'nan' become ''.
NotesOf(description) ==
    IF IsNa(description) \/ description = "nan" THEN "" ELSE description

\* A coordinate test that looks at the latitude only.
MissingLatitude(p) == IsNa(p.latitude)

\* pd.isna(latitude) or pd.isna(longitude) or ... is None
MissingCoordinates(p) == IsNa(p.latitude) \/ IsNa(p.longitude)

NewStation(p) ==
    [name |-> p.name, notes |-> NotesOf(p.description), info_source |-> "map1",
     coordinates |-> [lat |-> ToFloat(p.latitude), lng |-> ToFloat(p.longitude)]]

\* A second loop without the seen_names test: every located placemark
\* becomes a station.
RECURSIVE ConvertLoopNoSeen(_, _, _, _, _)
ConvertLoopNoSeen(r, sel, i, seen_names, stations) ==
    IF i > Len(sel) THEN [stations |-> stations, raised |-> "none"]
    ELSE IF MissingCoordinates(sel[i])
         THEN ConvertLoopNoSeen(r, sel, i + 1, seen_names, stations)
    ELSE IF r = "shower"
         THEN [stations |-> stations, raised |-> "NameError"]
    ELSE ConvertLoopNoSeen(r, sel, i + 1, seen_names,
                           Append(stations, NewStation(sel[i])))

\* A second loop that puts each new station in front of the earlier ones.
RECURSIVE ConvertLoopPrepend(_, _, _, _, _)
ConvertLoopPrepend(r, sel, i, seen_names, stations) ==
    IF i > Len(sel) THEN [stations |-> stations, raised |-> "none"]
    ELSE IF MissingCoordinates(sel[i])
         THEN ConvertLoopPrepend(r, sel, i + 1, seen_names, stations)
    ELSE IF sel[i].name \in seen_names
         THEN ConvertLoopPrepend(r, sel, i + 1, seen_names, stations)
    ELSE IF r = "shower"
         THEN [stations |-> stations, raised |-> "NameError"]
    ELSE ConvertLoopPrepend(r, sel, i + 1, seen_names \cup {sel[i].name},
                            <<NewStation(sel[i])>> \o stations)

\* The second loop of extract_from_csv over the selected placemarks, from
\* index i on, with the names seen and the stations appended so far.  The
\* shower processor builds the station from the undefined names latitude
\* and longitude and so raises NameError at the first placemark it accepts.
RECURSIVE ConvertLoop(_, _, _, _, _)
ConvertLoop(r, sel, i, seen_names, stations) ==
    IF i > Len(sel) THEN [stations |-> stations, raised |-> "none"]
    ELSE IF MissingCoordinates(sel[i])
         THEN ConvertLoop(r, sel, i + 1, seen_names, stations)
    ELSE IF sel[i].name \in seen_names
         THEN ConvertLoop(r, sel, i + 1, seen_names, stations)
    ELSE IF r = "shower"
         THEN [stations |-> stations, raised |-> "NameError"]
    ELSE ConvertLoop(r, sel, i + 1, seen_names \cup {sel[i].name},
                     Append(stations, NewStation(sel[i])))

\* extract_from_csv as a function of the reader's placemarks.
ExtractFromCsvResult(r, pms) ==
    IF \E i \in 1..Len(pms) : FilterRaises(r, pms[i])
    THEN [assigned |-> FALSE, stations |-> <<>>, raised |-> "TypeError"]
    ELSE LET sel == SelectSeq(pms, LAMBDA p : Selected(r, p))
             out == ConvertLoop(r, sel, 1, {}, <<>>)
         IN  [assigned |-> TRUE, stations |-> out.stations, raised |-> out.raised]

NoSync == [called |-> FALSE]

\* main calls extract_from_csv first; an exception ends the process.
ExtractFromCsv ==
    LET out == ExtractFromCsvResult(res, placemarks) IN
    /\ pc = "extract_from_csv"
    /\ csv_stations' = IF out.assigned THEN out.stations ELSE csv_stations
    /\ raised' = out.raised
    /\ pc' = IF out.raised = "none" THEN "save_csv_to_csv" ELSE "crashed"
    /\ UNCHANGED <<res, placemarks, api_stations, fetch_ret, sync_ret, log_file,
                   save_ret, mode, input_file, snapshots, write_failed>>

\* ---------------------------------- save_csv_to_csv, save_api_to_csv -----
\* The write of a snapshot: it completes, or open or a row write fails.
SnapshotOutcomes == {"ok", "fails"}

NoSnapshot == [status |-> "absent", rows |-> <<>>]

NoSnapshots == [source |-> NoSnapshot, remote |-> NoSnapshot]

\* A writer that lets the IOError out.
SaveCsvToCsvUncaught(file, data, w) ==
    IF data = <<>> THEN [file |-> file, raised |-> "none"]
    ELSE IF w = "ok"
    THEN [file |-> [status |-> "written",
                    rows |-> [i \in 1..Len(data) |-> data[i].name]],
          raised |-> "none"]
    ELSE [file |-> [status |-> "failed", rows |-> <<>>], raised |-> "IOError"]

\* save_csv_to_csv: nothing for an empty list; a row per station; an
\* IOError is printed.
SaveCsvToCsvResult(file, data, w) ==
    IF data = <<>> THEN [file |-> file, raised |-> "none"]
    ELSE IF w = "ok"
    THEN [file |-> [status |-> "written",
                    rows |-> [i \in 1..Len(data) |-> data[i].name]],
          raised |-> "none"]
    ELSE [file |-> [status |-> "failed", rows |-> <<>>], raised |-> "none"]

\* save_api_to_csv: the same for the remote stations.
SaveApiToCsvResult(file, data, w) ==
    IF data = <<>> THEN [file |-> file, raised |-> "none"]
    ELSE IF w = "ok"
    THEN [file |-> [status |-> "written",
                    rows |-> [i \in 1..Len(data) |-> data[i].name]],
          raised |-> "none"]
    ELSE [file |-> [status |-> "failed", rows |-> <<>>], raised |-> "none"]

\* if csv_stations: save_csv_to_csv(...)
SaveCsvToCsv ==
    /\ pc = "save_csv_to_csv"
    /\ \E w \in SnapshotOutcomes :
        LET out == IF csv_stations # <<>>
                   THEN SaveCsvToCsvResult(snapshots.source, csv_stations, w)
                   ELSE [file |-> snapshots.source, raised |-> "none"]
        IN  /\ snapshots' = [snapshots EXCEPT !.source = out.file]
            /\ write_failed' = (write_failed \/ out.file.status = "failed")
            /\ raised' = out.raised
            /\ pc' = IF out.raised = "none" THEN "extract_from_api" ELSE "crashed"
    /\ UNCHANGED <<res, placemarks, csv_stations, api_stations, fetch_ret,
                   sync_ret, log_file, save_ret, mode, input_file>>

\* -------------------------------------------------- extract_from_api -----
\* `a or b` of two scalars
Or(a, b) == IF Truthy(a) THEN a ELSE b

\* float(s.strip()) of one piece of a coordinate string
Numerals == {"0", "24", "25", "121"}
IsFloatText(s) == s \in Numerals

\* A response is [outcome, body]: the outcome of the request and the
\* decoded body, a value tagged with its JSON kind:
\*   wrapper: an object with the key 'member', holding the value of the key;
\*   object:  an object without that key;
\*   list:    its elements;   string: its text;   number, null.
\* An element or object is a record with is_object; a string element
\* carries its text.
\* `'member' in data`: a key of an object, an element of a list, a part of
\* a string.
MemberIn(data) ==
    CASE data.kind = "wrapper" -> TRUE
      [] data.kind = "object"  -> FALSE
      [] data.kind = "list"    ->
            \E i \in 1..Len(data.elements) :
                ~data.elements[i].is_object /\ data.elements[i].text = "member"
      [] data.kind = "string"  -> data.text = "member"

StringItem(text) ==
    [is_object |-> FALSE, text |-> text, id |-> None, name |-> None,
     notes |-> None, description |-> None, address |-> None,
     coordinates |-> [form |-> "absent", lat |-> None, lng |-> None]]

\* data['member'] if 'member' in data else (data if isinstance(data, list)
\* else [data]).  `in` raises TypeError on a number and on null;
\* data['member'] raises TypeError on a list and on a string.
MemberOrList(data) ==
    IF data.kind \in {"number", "null"}
    THEN [raised |-> "TypeError", value |-> <<>>]
    ELSE IF MemberIn(data)
    THEN IF data.kind = "wrapper"
         THEN [raised |-> "none", value |-> data.member]
         ELSE [raised |-> "TypeError", value |-> <<>>]
    ELSE CASE data.kind = "list"   -> [raised |-> "none", value |-> data.elements]
           [] data.kind = "object" -> [raised |-> "none", value |-> <<data.object>>]
           [] data.kind = "string" ->
                [raised |-> "none", value |-> <<StringItem(data.text)>>]

\* A fetch without raise_for_status: it decodes the body of an error
\* response as it does the body of a success.
FetchApiDataNoStatus(resp) ==
    IF resp.outcome \in {"request_error", "invalid_json"} \/ resp.body.kind = "none"
    THEN [raised |-> "none", value |-> <<>>]
    ELSE MemberOrList(resp.body)

\* _fetch_api_data: requests.get, raise_for_status, response.json and the
\* normalisation of the decoded body.  A request error, an error status and
\* an undecodable body are caught and give []; a TypeError is not caught.
FetchApiData(resp) ==
    IF resp.outcome # "ok" THEN [raised |-> "none", value |-> <<>>]
    ELSE MemberOrList(resp.body)

\* The (lat, lng) that _convert_api_data takes from item['coordinates'].
\* A coordinate value is [form, lat, lng]: absent/None, an object with the
\* keys lat and lng, an object with the keys latitude and longitude, or
\* the string "lat,lng".  The medical processor has no string branch.
ConvertCoordinates(r, c) ==
    CASE c.form = "lat_lng" ->
            [lat |-> Or(c.lat, None), lng |-> Or(c.lng, None)]
      [] c.form = "latitude_longitude" ->
            [lat |-> Or(None, c.lat), lng |-> Or(None, c.lng)]
      [] c.form = "string" /\ r # "medical" ->
            IF IsFloatText(c.lat) /\ IsFloatText(c.lng)
            THEN [lat |-> c.lat, lng |-> c.lng]
            ELSE [lat |-> None, lng |-> None]
      [] OTHER -> [lat |-> None, lng |-> None]

\* One converted station.  The water processor falls back from notes to
\* description; address is the key 'detailed_address' of a medical item and
\* 'address' of the others.  The remaining keys of the converted station
\* (water_type, opening_hours, ...) are copied and never read by the sync.
ConvertItem(r, item) ==
    LET ll == ConvertCoordinates(r, item.coordinates) IN
    [id |-> item.id, name |-> item.name,
     notes |-> IF r = "water" THEN Or(item.notes, item.description) ELSE item.notes,
     address |-> item.address, lat |-> ll.lat, lng |-> ll.lng]

\* _convert_api_data: item.get raises AttributeError on an item that is not
\* an object.
ConvertApiData(r, raw) ==
    IF \E i \in 1..Len(raw) : ~raw[i].is_object
    THEN [raised |-> "AttributeError", stations |-> <<>>]
    ELSE [raised |-> "none", stations |-> [i \in 1..Len(raw) |-> ConvertItem(r, raw[i])]]

\* extract_from_api (api_url is always given): an empty fetch result
\* returns [] and leaves the stations of an earlier call in place.
ExtractFromApiResult(r, resp, old) ==
    LET f == FetchApiData(resp)
        c == ConvertApiData(r, f.value)
    IN  IF f.raised # "none" THEN [raised |-> f.raised, ret |-> <<>>, stations |-> old]
        ELSE IF f.value = <<>> THEN [raised |-> "none", ret |-> <<>>, stations |-> old]
        ELSE IF c.raised # "none" THEN [raised |-> c.raised, ret |-> <<>>, stations |-> old]
        ELSE [raised |-> "none", ret |-> c.stations, stations |-> c.stations]

\* ------------------------------------------------- sync_source_to_db -----
BaseUrl == "https://guangfu250923.pttapp.cc/"

ResourcePath == [water |-> "water_refill_stations", medical |-> "medical_stations",
                 restroom |-> "restrooms", shower |-> "shower_stations"]

\* The URL of a create: the shower processor's has no trailing slash.
CreateUrl(r) ==
    IF r = "shower" THEN BaseUrl \o ResourcePath[r]
    ELSE BaseUrl \o ResourcePath[r] \o "/"

UpdateUrl(r, id) == BaseUrl \o ResourcePath[r] \o "/" \o id

AddressKey(r) == IF r = "medical" THEN "detailed_address" ELSE "address"

\* A test that would open the address branch whatever the remote address.
AddressEmptyOrSet(r, db_address) == TRUE

\* The test that opens the address branch: `not db_address or
\* db_address.strip() == ''`, and for restroom and shower also
\* `db_address.strip() == '-'`.
AddressEmpty(r, db_address) ==
    \/ ~Truthy(db_address)
    \/ Strip(db_address) = ""
    \/ (r \in {"restroom", "shower"} /\ Strip(db_address) = "-")

\* get_address_from_coordinates: the formatted address when the lookup
\* succeeds ("ok"), and None in every other case ("none"): the variable
\* GOOGLE_MAPS_API_KEY is not set, the request fails or times out, the
\* status is not OK, there is no result, the body cannot be read.
GetAddressFromCoordinates(lat, lng, outcome) ==
    IF outcome = "ok" THEN "addr of " \o lat \o "," \o lng
    ELSE None

\* {station['name']: station for station in stations}: the keys in the
\* order of their first occurrence, each with its last station.
\* An index that would keep the first station of a name.
FirstWithName(stations, name) ==
    LET idx == {i \in 1..Len(stations) : stations[i].name = name}
        first == CHOOSE i \in idx : \A j \in idx : i <= j
    IN  stations[first]

LastWithName(stations, name) ==
    LET idx == {i \in 1..Len(stations) : stations[i].name = name}
        last == CHOOSE i \in idx : \A j \in idx : j <= i
    IN  stations[last]

RECURSIVE DictItemsFrom(_, _, _)
DictItemsFrom(stations, i, seen) ==
    IF i > Len(stations) THEN <<>>
    ELSE IF stations[i].name \in seen THEN DictItemsFrom(stations, i + 1, seen)
    ELSE <<LastWithName(stations, stations[i].name)>>
         \o DictItemsFrom(stations, i + 1, seen \cup {stations[i].name})

DictItems(stations) == DictItemsFrom(stations, 1, {})

InDict(stations, name) == \E i \in 1..Len(stations) : stations[i].name = name

\* The create payload of each processor.
CreateData(r, csv_station, address) ==
    LET coordinates == [lat |-> csv_station.coordinates.lat,
                        lng |-> csv_station.coordinates.lng] IN
    CASE r = "water" ->
            [name |-> csv_station.name, address |-> address,
             water_type |-> "drinking_water", opening_hours |-> "N/A",
             is_free |-> TRUE, status |-> "active", accessibility |-> TRUE,
             notes |-> csv_station.notes, info_source |-> "map1",
             coordinates |-> coordinates]
      [] r = "medical" ->
            [name |-> csv_station.name, detailed_address |-> address,
             station_type |-> "-", location |-> address, phone |-> "",
             status |-> "-", notes |-> csv_station.notes, operating_hours |-> "",
             link |-> "", services |-> <<>>, coordinates |-> coordinates]
      [] r = "restroom" ->
            [name |-> csv_station.name, address |-> address,
             facility_type |-> "mobile_toilet", opening_hours |-> "-",
             is_free |-> TRUE, has_water |-> TRUE, has_lighting |-> TRUE,
             status |-> "-", coordinates |-> coordinates]
      [] r = "shower" ->
            [name |-> csv_station.name, address |-> address,
             facility_type |-> "shower_station", opening_hours |-> "-",
             is_free |-> TRUE, has_water |-> TRUE, has_lighting |-> TRUE,
             status |-> "-", coordinates |-> coordinates]

\* A comparison of the notes without `or ''`: None differs from ''.
NotesDifferRaw(csv_station, api_station) ==
    csv_station.notes # api_station.notes

\* The update delta of a matched station with a truthy id, given the
\* address the lookup returned (None when it was not called or failed).
NotesDiffer(csv_station, api_station) ==
    Or(csv_station.notes, "") # Or(api_station.notes, "")

CoordinatesDiffer(csv_station, api_station) ==
    /\ Truthy(csv_station.coordinates.lat)
    /\ Truthy(csv_station.coordinates.lng)
    /\ \/ csv_station.coordinates.lat # api_station.lat
       \/ csv_station.coordinates.lng # api_station.lng

UpdateKeys(r, csv_station, api_station, address) ==
    (IF Truthy(address) THEN {AddressKey(r)} ELSE {})
    \cup (IF NotesDiffer(csv_station, api_station) THEN {"notes"} ELSE {})
    \cup (IF r = "medical" /\ CoordinatesDiffer(csv_station, api_station)
          THEN {"coordinates"} ELSE {})

UpdateData(r, csv_station, api_station, address) ==
    [k \in UpdateKeys(r, csv_station, api_station, address) |->
        CASE k = "notes" -> Or(csv_station.notes, "")
          [] k = "coordinates" -> [lat |-> csv_station.coordinates.lat,
                                   lng |-> csv_station.coordinates.lng]
          [] OTHER -> address]

\* A test that would take no remote id for missing.
MissingIdNever(station_id) == FALSE

\* `if not station_id`: None, and also 0 and '', count as a missing id.
MissingId(station_id) == ~Truthy(station_id)

\* A create branch that would take the geocoder's answer without the test
\* `if lat and lng`.
CreateAddressUnguarded(located, found) == Or(found, "")

\* The address of a create: '' unless both coordinates are truthy, and
\* then `get_address_from_coordinates(lat, lng) or ""`.
CreateAddress(located, found) == IF located THEN Or(found, "") ELSE ""

\* A skip that would not be counted.
SkipUncounted(acc) == acc

\* skipped_count += 1
Skip(acc) == [acc EXCEPT !.skipped = @ + 1]

LookupOutcomes == {"ok", "none"}

\* The loop of sync_source_to_db over csv_by_name.items() from index i on.
\* acc holds the locals http_requests, updated_count, created_count and
\* skipped_count, the address lookups made so far and the exception that
\* ended the loop.  oracle[i] is what the geocoder answers to the lookup of
\* iteration i, if that iteration makes one.
\* The matched branch of the shower processor assigns updated_data and
\* reads update_data: it raises NameError, at the latest at `if
\* update_data:`, after its address lookup.
RECURSIVE SyncLoop(_, _, _, _, _, _)
SyncLoop(r, items, api, oracle, i, acc) ==
    IF i > Len(items) THEN acc
    ELSE
    LET csv_station == items[i]
        name == csv_station.name
        lat == csv_station.coordinates.lat
        lng == csv_station.coordinates.lng
        located == Truthy(lat) /\ Truthy(lng)
        found == GetAddressFromCoordinates(lat, lng, oracle[i])
        looked == Append(acc.lookups, [name |-> name, address |-> found])
    IN
    IF InDict(api, name)
    THEN
        LET api_station == LastWithName(api, name)
            station_id == api_station.id
            asks == AddressEmpty(r, api_station.address) /\ located
            address == IF asks THEN found ELSE None
            update_data == UpdateData(r, csv_station, api_station, address)
            patch_request == [http_method |-> "PATCH",
                              url |-> UpdateUrl(r, station_id),
                              request_body |-> update_data,
                              name |-> name, action |-> "update"]
            lookups == IF asks THEN looked ELSE acc.lookups
        IN
        IF MissingId(station_id)
        THEN SyncLoop(r, items, api, oracle, i + 1, Skip(acc))
        ELSE IF r = "shower"
        THEN [acc EXCEPT !.lookups = lookups, !.raised = "NameError"]
        ELSE IF DOMAIN update_data # {}
        THEN SyncLoop(r, items, api, oracle, i + 1,
                      [acc EXCEPT !.lookups = lookups,
                                  !.http_requests = Append(@, patch_request),
                                  !.updated = @ + 1])
        ELSE SyncLoop(r, items, api, oracle, i + 1,
                      Skip([acc EXCEPT !.lookups = lookups]))
    ELSE
        LET address == CreateAddress(located, found)
            post_request == [http_method |-> "POST", url |-> CreateUrl(r),
                             request_body |-> CreateData(r, csv_station, address),
                             name |-> name, action |-> "create"]
        IN
        SyncLoop(r, items, api, oracle, i + 1,
                 [acc EXCEPT !.lookups = IF located THEN looked ELSE @,
                             !.http_requests = Append(@, post_request),
                             !.created = @ + 1])

SyncLocals0 ==
    [http_requests |-> <<>>, updated |-> 0, created |-> 0, skipped |-> 0,
     lookups |-> <<>>, raised |-> "none"]

\* save_json_requests: open(output_file, 'w') and json.dump.  A failing
\* open leaves the file as it was; a failure during the dump leaves the
\* truncated file with whatever was written.  Both are caught (IOError).
WriteOutcomes == {"ok", "open_fails", "dump_fails"}

\* A save that would refuse an empty list.
SaveJsonRequestsNonEmpty(file, http_requests, w) ==
    IF http_requests = <<>> THEN [file |-> file, ret |-> FALSE]
    ELSE CASE w = "ok" ->
                [file |-> [status |-> "complete", content |-> http_requests],
                 ret |-> TRUE]
           [] w = "open_fails" -> [file |-> file, ret |-> FALSE]
           [] w = "dump_fails" ->
                [file |-> [status |-> "partial", content |-> <<>>],
                 ret |-> FALSE]

\* The file after the call and the value returned.
SaveJsonRequests(file, http_requests, w) ==
    CASE w = "ok" ->
            [file |-> [status |-> "complete", content |-> http_requests],
             ret |-> TRUE]
      [] w = "open_fails" -> [file |-> file, ret |-> FALSE]
      [] w = "dump_fails" ->
            [file |-> [status |-> "partial", content |-> <<>>], ret |-> FALSE]

NoSave == [called |-> FALSE]

NoSummary == [none |-> TRUE]

\* sync_source_to_db as a function of the processor's station lists.
SyncResult(r, csv, api, oracle) ==
    IF csv = <<>>
    THEN [called |-> TRUE, raised |-> "none", saved |-> FALSE,
          http_requests |-> <<>>, lookups |-> <<>>,
          summary |-> [updated |-> 0, created |-> 0, skipped |-> 0]]
    ELSE LET out == SyncLoop(r, DictItems(csv), api, oracle, 1, SyncLocals0) IN
         IF out.raised # "none"
         THEN [called |-> TRUE, raised |-> out.raised, saved |-> FALSE,
               http_requests |-> out.http_requests, lookups |-> out.lookups,
               summary |-> NoSummary]
         ELSE [called |-> TRUE, raised |-> "none", saved |-> TRUE,
               http_requests |-> out.http_requests, lookups |-> out.lookups,
               summary |-> [updated |-> out.updated, created |-> out.created,
                            skipped |-> out.skipped,
                            total_requests |-> Len(out.http_requests)]]

Oracles(csv) == [1..Len(DictItems(csv)) -> LookupOutcomes]

SyncSourceToDb ==
    /\ pc = "sync_source_to_db"
    /\ \E oracle \in Oracles(csv_stations) :
        sync_ret' = SyncResult(res, csv_stations, api_stations, oracle)
    /\ \E w \in WriteOutcomes :
        LET out == SaveJsonRequests(log_file, sync_ret'.http_requests, w) IN
        IF sync_ret'.saved
        THEN /\ log_file' = out.file
             /\ save_ret' = [called |-> TRUE, http_requests |-> sync_ret'.http_requests,
                             outcome |-> w, ret |-> out.ret]
        ELSE /\ log_file' = log_file
             /\ save_ret' = save_ret
    /\ write_failed' = (write_failed \/ (save_ret'.called /\ ~save_ret'.ret))
    /\ raised' = sync_ret'.raised
    /\ pc' = IF sync_ret'.raised = "none" THEN "done" ELSE "crashed"
    /\ UNCHANGED <<res, placemarks, csv_stations, api_stations, fetch_ret,
                   mode, input_file, snapshots>>

\* ------------------------------------------------------------ inputs -----
SeqsUpTo(S, n) == UNION {[1..k -> S] : k \in 0..n}

\* Placemarks of the export as read_from_csv returns them: a blank cell
\* is NaN, a coordinate cell a number.
PlacemarkNames(r) == {"A " \o Keyword[r], "C", NaN}

PlacemarkCells ==
    {<<NaN, "24", "121">>, <<"x", "24", "121">>, <<"y", NaN, "121">>,
     <<"y", "24", NaN>>, <<"y", "0", "121">>}

Placemarks(r) ==
    {[folder |-> f, name |-> n, description |-> c[1],
      latitude |-> c[2], longitude |-> c[3]] :
        f \in {FolderMatch[r], "F_other"}, n \in PlacemarkNames(r),
        c \in PlacemarkCells}

\* The exports the whole pipeline is run on: placemarks of the resource's
\* folder with a string name.
PipelinePlacemarks(r) ==
    {p \in Placemarks(r) :
        /\ p.folder = FolderMatch[r]
        /\ p.name # NaN
        /\ <<p.description, p.latitude, p.longitude>> \in
              {<<"x", "24", "121">>, <<"y", NaN, "121">>, <<"y", "24", NaN>>,
               <<"y", "0", "121">>}}

\* Canonical source stations a processor can hold: distinct names, both
\* coordinates present, notes a string.
SourceStation(n, t, lat) ==
    [name |-> n, notes |-> t, info_source |-> "map1",
     coordinates |-> [lat |-> lat, lng |-> "121"]]

SourceStations(r) ==
    {SourceStation("A " \o Keyword[r], c[1], c[2]) :
        c \in {<<"", "24">>, <<"x", "24">>, <<"x", "0">>}}
    \cup {SourceStation("C", "x", "24")}
    \cup {SourceStation("B " \o Keyword[r], "x", "24")}

DistinctNames(stations) ==
    \A i, j \in 1..Len(stations) : stations[i].name = stations[j].name => i = j

SourceLists(r) ==
    {s \in SeqsUpTo(SourceStations(r), MaxStations) : DistinctNames(s)}

\* Converted remote stations a processor can hold.
RemoteStation(name, id, t, a, ll) ==
    [id |-> id, name |-> name, notes |-> t, address |-> a,
     lat |-> ll[1], lng |-> ll[2]]

RemoteStations(r) ==
    {RemoteStation("A " \o Keyword[r], "7", c[1], c[2], <<"24", "121">>) :
        c \in {<<None, None>>, <<"x", None>>, <<None, "K">>, <<"x", "K">>,
               <<None, "-">>, <<None, " ">>}}
    \cup {RemoteStation("A " \o Keyword[r], id, None, None, <<"24", "121">>) :
            id \in {None, "0"}}
    \cup {RemoteStation("C", "8", None, "K", <<"24", "121">>)}
    \cup (IF r = "medical"
          THEN {RemoteStation("A " \o Keyword[r], "7", "x", "K", <<None, None>>)}
          ELSE {})

RemoteLists(r) == SeqsUpTo(RemoteStations(r), MaxRemote)

\* Objects of a response body.
RawItems(r) ==
    {[is_object |-> TRUE, text |-> None, id |-> id, name |-> "A " \o Keyword[r],
      notes |-> None, description |-> "x", address |-> "K",
      coordinates |-> c] :
        id \in {None, "7"},
        c \in {[form |-> "absent", lat |-> None, lng |-> None],
               [form |-> "lat_lng", lat |-> "24", lng |-> "121"]}}

\* Two objects with different names, for the bodies that list both.
RawPair(r) ==
    LET a == [is_object |-> TRUE, text |-> None, id |-> "7",
              name |-> "A " \o Keyword[r], notes |-> None, description |-> "x",
              address |-> "K",
              coordinates |-> [form |-> "lat_lng", lat |-> "24", lng |-> "121"]]
    IN  <<a, [a EXCEPT !.id = "8", !.name = "C"]>>

\* Decoded bodies.
Bodies(r) ==
    {[kind |-> "wrapper", member |-> <<it>>] : it \in RawItems(r)}
    \cup {[kind |-> "list", elements |-> <<it>>] : it \in RawItems(r)}
    \cup {[kind |-> "object", object |-> it] : it \in RawItems(r)}
    \cup {[kind |-> "list", elements |-> <<>>]}
    \cup {[kind |-> "list", elements |-> <<RawPair(r)[1], RawPair(r)[2]>>],
          [kind |-> "list", elements |-> <<RawPair(r)[2], RawPair(r)[1]>>]}
    \cup {[kind |-> "list", elements |-> <<StringItem(t)>>] : t \in {"x", "member"}}
    \cup {[kind |-> "string", text |-> t] : t \in {"x", "member"}}
    \cup {[kind |-> "number"], [kind |-> "null"]}

NoBody == [kind |-> "none"]

Responses(r) ==
    {[outcome |-> o, body |-> NoBody] :
        o \in {"request_error", "error_status", "invalid_json"}}
    \cup {[outcome |-> "error_status", body |-> [kind |-> "object", object |-> it]] :
            it \in RawItems(r)}
    \cup {[outcome |-> "ok", body |-> b] : b \in Bodies(r)}

\* placemarks.csv as main finds it: missing, without any column, not
\* readable for another reason, or a table of rows (none for a header
\* alone).
InputRow(r, latitude) ==
    [folder |-> FolderMatch[r], name |-> "A " \o Keyword[r], description |-> "x",
     latitude |-> latitude, longitude |-> "121"]

InputTables ==
    {<<>>,
     <<InputRow("water", "24")>>,
     <<InputRow("water", NaN)>>,
     <<InputRow("water", "24"), InputRow("medical", "24")>>,
     <<InputRow("restroom", "24"), InputRow("shower", "24")>>}

InputFiles ==
    {[kind |-> k, rows |-> <<>>] : k \in {"not_found", "empty_data", "unreadable"}}
    \cup {[kind |-> "rows", rows |-> t] : t \in InputTables}

Modes == {"all", "csv", "other"} \cup Resources

\* ----------------------------------------------------------- actions -----
NoFetch == [called |-> FALSE]

\* extract_from_api on a response out of R.
ExtractFromApiOn(R) ==
    /\ pc = "extract_from_api"
    /\ \E resp \in R :
        LET out == ExtractFromApiResult(res, resp, api_stations) IN
        /\ api_stations' = out.stations
        /\ fetch_ret' = [called |-> TRUE, response |-> resp,
                         fetched |-> FetchApiData(resp), ret |-> out.ret]
        /\ raised' = out.raised
        /\ pc' = IF out.raised # "none" THEN "crashed" ELSE "save_api_to_csv"
    /\ UNCHANGED <<res, placemarks, csv_stations, sync_ret, log_file, save_ret,
                   mode, input_file, snapshots, write_failed>>

\* main calls extract_from_api next.
ExtractFromApi == ExtractFromApiOn(Responses(res))

\* if api_stations: save_api_to_csv(...), on the list extract_from_api
\* returned; then sync_source_to_db if extract_from_csv returned stations.
SaveApiToCsv ==
    /\ pc = "save_api_to_csv"
    /\ \E w \in SnapshotOutcomes :
        LET out == IF fetch_ret.ret # <<>>
                   THEN SaveApiToCsvResult(snapshots.remote, api_stations, w)
                   ELSE [file |-> snapshots.remote, raised |-> "none"]
        IN  /\ snapshots' = [snapshots EXCEPT !.remote = out.file]
            /\ write_failed' = (write_failed \/ out.file.status = "failed")
            /\ raised' = out.raised
            /\ pc' = IF out.raised # "none" THEN "crashed"
                     ELSE IF csv_stations # <<>> THEN "sync_source_to_db"
                     ELSE "done"
    /\ UNCHANGED <<res, placemarks, csv_stations, api_stations, fetch_ret,
                   sync_ret, log_file, save_ret, mode, input_file>>

NoFile == [status |-> "absent", content |-> <<>>]

\* A processor as main constructs it, on a reader that has read the export.
Init ==
    /\ res \in Resources
    /\ placemarks \in SeqsUpTo(PipelinePlacemarks(res), MaxPlacemarks)
    /\ csv_stations = <<>>
    /\ api_stations = <<>>
    /\ pc = "extract_from_csv"
    /\ raised = "none"
    /\ fetch_ret = NoFetch
    /\ sync_ret = NoSync
    /\ log_file = NoFile
    /\ save_ret = NoSave
    /\ mode = res
    /\ input_file = [kind |-> "rows", rows |-> placemarks]
    /\ snapshots = NoSnapshots
    /\ write_failed = FALSE

Next ==
    \/ ExtractFromCsv
    \/ SaveCsvToCsv
    \/ ExtractFromApi
    \/ SaveApiToCsv
    \/ SyncSourceToDb

Spec == Init /\ [][Next]_vars

\* extract_from_csv on every export.
InitCsv ==
    /\ res \in Resources
    /\ placemarks \in SeqsUpTo(Placemarks(res), MaxPlacemarks)
    /\ csv_stations = <<>>
    /\ api_stations = <<>>
    /\ pc = "extract_from_csv"
    /\ raised = "none"
    /\ fetch_ret = NoFetch
    /\ sync_ret = NoSync
    /\ log_file = NoFile
    /\ save_ret = NoSave
    /\ mode = res
    /\ input_file = [kind |-> "rows", rows |-> placemarks]
    /\ snapshots = NoSnapshots
    /\ write_failed = FALSE

NextCsv == ExtractFromCsv

SpecCsv == InitCsv /\ [][NextCsv]_vars

\* sync_source_to_db on every pair of station lists a processor can hold.
InitSync ==
    /\ res \in Resources
    /\ placemarks = <<>>
    /\ csv_stations \in SourceLists(res)
    /\ api_stations \in RemoteLists(res)
    /\ pc = "sync_source_to_db"
    /\ raised = "none"
    /\ fetch_ret = NoFetch
    /\ sync_ret = NoSync
    /\ log_file = NoFile
    /\ save_ret = NoSave
    /\ mode = res
    /\ input_file = [kind |-> "rows", rows |-> placemarks]
    /\ snapshots = NoSnapshots
    /\ write_failed = FALSE

NextSync == SyncSourceToDb

SpecSync == InitSync /\ [][NextSync]_vars

\* ------------------------------------------- remote coordinates -----
\* The values of item['coordinates']: absent, an object with the keys lat
\* and lng or latitude and longitude (a key can be missing or hold 0), or
\* a string of two pieces, a piece being a numeral, another text, or
\* missing.
CoordinateValues ==
    {[form |-> "absent", lat |-> None, lng |-> None]}
    \cup {[form |-> f, lat |-> lat, lng |-> lng] :
            f \in {"lat_lng", "latitude_longitude", "string"},
            lat \in {None, "0", "24", "abc"}, lng \in {None, "121"}}

CoordinateItems(r) ==
    {[is_object |-> TRUE, text |-> None, id |-> "7", name |-> "A " \o Keyword[r],
      notes |-> None, description |-> "x", address |-> "K", coordinates |-> c] :
        c \in CoordinateValues}

\* Successful responses that list one to MaxRemote such items.
CoordinateResponses(r) ==
    {[outcome |-> "ok", body |-> [kind |-> "list", elements |-> e]] :
        e \in SeqsUpTo(CoordinateItems(r), MaxRemote) \ {<<>>}}

\* extract_from_api of a new processor on such a response.
InitApi ==
    /\ res \in Resources
    /\ placemarks = <<>>
    /\ csv_stations = <<>>
    /\ api_stations = <<>>
    /\ pc = "extract_from_api"
    /\ raised = "none"
    /\ fetch_ret = NoFetch
    /\ sync_ret = NoSync
    /\ log_file = NoFile
    /\ save_ret = NoSave
    /\ mode = res
    /\ input_file = [kind |-> "rows", rows |-> placemarks]
    /\ snapshots = NoSnapshots
    /\ write_failed = FALSE

NextApi == ExtractFromApiOn(CoordinateResponses(res))

SpecApi == InitApi /\ [][NextApi]_vars

\* ---------------------------------------------- one instance, reused -----
\* A caller that keeps one processor and calls extract_from_api and
\* sync_source_to_db on it in any order, any number of times: when a call
\* has returned it makes the next one.  self.api_*_stations and
\* self.csv_*_stations are the instance's attributes and live across the
\* calls.
NextCall ==
    /\ pc \in {"returned", "save_api_to_csv", "done"}
    /\ pc' \in {"extract_from_api", "sync_source_to_db"}
    /\ UNCHANGED <<res, placemarks, csv_stations, api_stations, raised,
                   fetch_ret, sync_ret, log_file, save_ret, mode, input_file,
                   snapshots, write_failed>>

\* What the instance's fetches meet: a request that fails, an empty
\* collection, and collections of one or two stations with an id.
CallResponses(r) ==
    {resp \in Responses(r) :
        \/ resp.outcome = "request_error"
        \/ /\ resp.outcome = "ok"
           /\ resp.body.kind = "list"
           /\ \A k \in 1..Len(resp.body.elements) :
                /\ resp.body.elements[k].is_object
                /\ resp.body.elements[k].id # None}

ExtractFromApiAgain == ExtractFromApiOn(CallResponses(res))

\* The instance after extract_from_csv has returned its stations.
InitCalls ==
    /\ res \in Resources
    /\ placemarks = <<>>
    /\ csv_stations \in {s \in SourceLists(res) : Len(s) <= MaxCallStations}
    /\ api_stations = <<>>
    /\ pc = "returned"
    /\ raised = "none"
    /\ fetch_ret = NoFetch
    /\ sync_ret = NoSync
    /\ log_file = NoFile
    /\ save_ret = NoSave
    /\ mode = res
    /\ input_file = [kind |-> "rows", rows |-> placemarks]
    /\ snapshots = NoSnapshots
    /\ write_failed = FALSE

NextCalls ==
    \/ NextCall
    \/ ExtractFromApiAgain
    \/ SyncSourceToDb

SpecCalls == InitCalls /\ [][NextCalls]_vars

\* ------------------------------------------------------------- main -----
\* read_from_csv: FileNotFoundError and EmptyDataError are caught and give
\* []; any other error of pd.read_csv leaves the function.
ReadFromCsvResult(file) ==
    CASE file.kind \in {"not_found", "empty_data"} ->
            [raised |-> "none", placemarks |-> <<>>]
      [] file.kind = "unreadable" ->
            [raised |-> "PermissionError", placemarks |-> <<>>]
      [] file.kind = "rows" -> [raised |-> "none", placemarks |-> file.rows]

\* A main that goes on without placemarks.
AfterReadUnguarded(pms, m) ==
    IF m = "csv" THEN "returned" ELSE "dispatch"

\* if not placemarks: return; if mode == "csv": return
AfterRead(pms, m) ==
    IF pms = <<>> THEN "returned"
    ELSE IF m = "csv" THEN "returned"
    ELSE "dispatch"

ReadFromCsv ==
    LET out == ReadFromCsvResult(input_file) IN
    /\ pc = "read_from_csv"
    /\ placemarks' = out.placemarks
    /\ raised' = out.raised
    /\ pc' = IF out.raised # "none" THEN "crashed"
             ELSE AfterRead(out.placemarks, mode)
    /\ UNCHANGED <<res, csv_stations, api_stations, fetch_ret, sync_ret,
                   log_file, save_ret, mode, input_file, snapshots,
                   write_failed>>

\* The order of the processor blocks of main, and the blocks still ahead
\* that the mode runs: `if mode in [r, "all"]`.
ResourceOrder == <<"water", "medical", "restroom", "shower">>

BlocksAhead(r, m) ==
    {i \in 1..Len(ResourceOrder) :
        /\ m \in {ResourceOrder[i], "all"}
        /\ \A j \in 1..Len(ResourceOrder) : ResourceOrder[j] = r => j < i}

\* main goes to the next block its mode runs and constructs the processor
\* on the same reader, or has no block left and returns.
NextProcessor ==
    /\ pc \in {"dispatch", "done"}
    /\ IF BlocksAhead(res, mode) = {}
       THEN /\ pc' = "returned"
            /\ UNCHANGED <<res, csv_stations, api_stations, fetch_ret,
                           sync_ret, log_file, save_ret, snapshots>>
       ELSE /\ res' = ResourceOrder[FirstOf(BlocksAhead(res, mode))]
            /\ csv_stations' = <<>>
            /\ api_stations' = <<>>
            /\ fetch_ret' = NoFetch
            /\ sync_ret' = NoSync
            /\ log_file' = NoFile
            /\ save_ret' = NoSave
            /\ snapshots' = NoSnapshots
            /\ pc' = "extract_from_csv"
    /\ UNCHANGED <<placemarks, raised, mode, input_file, write_failed>>

InitMain ==
    /\ res = "none"
    /\ mode \in Modes
    /\ input_file \in InputFiles
    /\ placemarks = <<>>
    /\ csv_stations = <<>>
    /\ api_stations = <<>>
    /\ pc = "read_from_csv"
    /\ raised = "none"
    /\ fetch_ret = NoFetch
    /\ sync_ret = NoSync
    /\ log_file = NoFile
    /\ save_ret = NoSave
    /\ snapshots = NoSnapshots
    /\ write_failed = FALSE

NextMain ==
    \/ ReadFromCsv
    \/ NextProcessor
    \/ ExtractFromCsv
    \/ SaveCsvToCsv
    \/ ExtractFromApi
    \/ SaveApiToCsv
    \/ SyncSourceToDb

SpecMain == InitMain /\ [][NextMain]_vars

\* -------------------------------------------------------- properties -----
\* The call of sync_source_to_db a state records: the operations it
\* appended to http_requests, the source stations whose name is a key of
\* api_by_name, and the remote station of such a name.
OpsOf(name, action) ==
    {k \in 1..Len(sync_ret.http_requests) :
        /\ sync_ret.http_requests[k].name = name
        /\ sync_ret.http_requests[k].action = action}

MatchedStations ==
    {i \in 1..Len(csv_stations) : InDict(api_stations, csv_stations[i].name)}

UnmatchedStations == (1..Len(csv_stations)) \ MatchedStations

Remote(i) == LastWithName(api_stations, csv_stations[i].name)

Returned == sync_ret.called /\ sync_ret.raised = "none"

\* C1: after sync_source_to_db, every source station whose name is not a
\* remote name has exactly one operation with action 'create', method POST,
\* its name, and a request_body with that name and its coordinates, and
\* the counter 'created' it returns is the number of such stations.
C1_UnmatchedCreated ==
    sync_ret.called =>
        /\ \A i \in UnmatchedStations :
            /\ Cardinality(OpsOf(csv_stations[i].name, "create")) = 1
            /\ \A k \in OpsOf(csv_stations[i].name, "create") :
                LET op == sync_ret.http_requests[k] IN
                /\ op.http_method = "POST"
                /\ op.request_body.name = csv_stations[i].name
                /\ op.request_body.coordinates = csv_stations[i].coordinates
        /\ Returned => sync_ret.summary.created = Cardinality(UnmatchedStations)

\* The same property of the water, medical and restroom processors,
\* whose matched branch runs.
C1_ExceptShower == res # "shower" => C1_UnmatchedCreated

\* A remote address that is non-empty, non-blank and not the placeholder.
AddressIsSet(a) == a \notin {None, "", " ", "-"}

AddressKeys == {"address", "detailed_address"}

\* C2: for a matched source station whose remote address is non-empty,
\* non-blank and not '-', the request_body of its update operation, if
\* there is one, has no key 'address' or 'detailed_address', whatever the
\* address lookups of the run return.
C2_SetAddressKept ==
    sync_ret.called =>
        \A i \in MatchedStations :
            AddressIsSet(Remote(i).address) =>
                \A k \in OpsOf(csv_stations[i].name, "update") :
                    DOMAIN sync_ret.http_requests[k].request_body \cap AddressKeys = {}

\* An update of a station whose remote address is set, in a run whose
\* geocoder answers.
C2_Witness ==
    /\ sync_ret.called
    /\ \E i \in MatchedStations :
        /\ AddressIsSet(Remote(i).address)
        /\ OpsOf(csv_stations[i].name, "update") # {}
    /\ \E j \in 1..Len(sync_ret.lookups) : sync_ret.lookups[j].address # None

\* Source and matched remote station carry the same notes (null and the
\* empty string being one value) and the same coordinates.
FieldIdentical(i) ==
    /\ Or(csv_stations[i].notes, "") = Or(Remote(i).notes, "")
    /\ csv_stations[i].coordinates.lat = Remote(i).lat
    /\ csv_stations[i].coordinates.lng = Remote(i).lng

UpdateOps ==
    {k \in 1..Len(sync_ret.http_requests) :
        sync_ret.http_requests[k].action = "update"}

SkippedIsMatched ==
    /\ "skipped" \in DOMAIN sync_ret.summary
    /\ sync_ret.summary.skipped = Cardinality(MatchedStations)

\* C3 as stated: if every matched source station is field-identical to
\* its remote station, sync_source_to_db emits no update and returns
\* skipped = number of matched names.
C3_NoOpIdempotence ==
    (sync_ret.called /\ \A i \in MatchedStations : FieldIdentical(i)) =>
        /\ UpdateOps = {}
        /\ SkippedIsMatched

\* The lookups of the run that returned an address for a matched station.
MatchedAddressFound ==
    \E j \in 1..Len(sync_ret.lookups) :
        /\ sync_ret.lookups[j].address # None
        /\ InDict(api_stations, sync_ret.lookups[j].name)

\* C3: if every matched source station is field-identical to its remote
\* station and no address lookup of a matched station returns an address,
\* a call of sync_source_to_db that returns emits no update and returns
\* skipped = number of matched names.
C3_NoOpWithoutAddress ==
    (Returned /\ (\A i \in MatchedStations : FieldIdentical(i))
              /\ ~MatchedAddressFound) =>
        /\ UpdateOps = {}
        /\ SkippedIsMatched

\* A field-identical match with a remote id whose empty remote address
\* was looked up without result: skipped for its empty delta.
C3_Witness ==
    /\ Returned
    /\ \A i \in MatchedStations : FieldIdentical(i)
    /\ ~MatchedAddressFound
    /\ \E i \in MatchedStations :
        /\ Truthy(Remote(i).id)
        /\ \E j \in 1..Len(sync_ret.lookups) :
            sync_ret.lookups[j].name = csv_stations[i].name

\* The placemarks the filter of extract_from_csv selects, and the stations
\* extract_from_csv left with a name.
SelectedPlacemarks ==
    {i \in 1..Len(placemarks) : Selected(res, placemarks[i])}

StationsNamed(name) ==
    {k \in 1..Len(csv_stations) : csv_stations[k].name = name}

Extracted == pc # "extract_from_csv"

\* C4 as stated: when two selected placemarks have the same name, the
\* stations of extract_from_csv hold at most one station of that name, and
\* it is the one built from the first selected placemark of that name.
C4_FirstSelectedWins ==
    Extracted =>
        \A i, j \in SelectedPlacemarks :
            (i < j /\ placemarks[i].name = placemarks[j].name) =>
                LET same == {k \in SelectedPlacemarks :
                                placemarks[k].name = placemarks[i].name}
                IN  /\ Cardinality(StationsNamed(placemarks[i].name)) <= 1
                    /\ \A k \in StationsNamed(placemarks[i].name) :
                        csv_stations[k] = NewStation(placemarks[FirstOf(same)])

\* C4: when two selected placemarks have the same name, the stations of
\* extract_from_csv hold at most one station of that name, and it is the
\* one built from the first selected placemark of that name that has both
\* coordinates.
C4_FirstLocatedWins ==
    Extracted =>
        \A i, j \in SelectedPlacemarks :
            (i < j /\ placemarks[i].name = placemarks[j].name) =>
                LET located == {k \in SelectedPlacemarks :
                                   /\ placemarks[k].name = placemarks[i].name
                                   /\ ~MissingCoordinates(placemarks[k])}
                IN  /\ Cardinality(StationsNamed(placemarks[i].name)) <= 1
                    /\ \A k \in StationsNamed(placemarks[i].name) :
                        /\ located # {}
                        /\ csv_stations[k] = NewStation(placemarks[FirstOf(located)])

\* Two selected placemarks of one name, both with coordinates and with
\* different contents, and a station of that name.
C4_Witness ==
    /\ Extracted
    /\ \E i, j \in SelectedPlacemarks :
        /\ i < j
        /\ placemarks[i].name = placemarks[j].name
        /\ ~MissingCoordinates(placemarks[i])
        /\ ~MissingCoordinates(placemarks[j])
        /\ NewStation(placemarks[i]) # NewStation(placemarks[j])
        /\ StationsNamed(placemarks[i].name) # {}

\* The operations of the run that carry a name.
OpsNamed(name) ==
    {k \in 1..Len(sync_ret.http_requests) :
        sync_ret.http_requests[k].name = name}

\* C5: a source station whose name matches a remote station without a
\* remote id gets no operation, neither update nor create, and counts one
\* in 'skipped': the counter returned is the number of source stations
\* without an operation.
C5_NoIdSkipped ==
    sync_ret.called =>
        /\ \A i \in MatchedStations :
            Remote(i).id = None => OpsNamed(csv_stations[i].name) = {}
        /\ Returned =>
            sync_ret.summary.skipped =
                Cardinality({i \in 1..Len(csv_stations) :
                                OpsNamed(csv_stations[i].name) = {}})

\* A run that skips a station matched without id and emits an operation
\* for another station.
C5_Witness ==
    /\ Returned
    /\ \E i \in MatchedStations : Remote(i).id = None
    /\ sync_ret.summary.skipped = 1
    /\ sync_ret.http_requests # <<>>

\* C6: on return from sync_source_to_db with a non-empty source set,
\* updated + created + skipped is the number of source stations,
\* total_requests is updated + created and the length of the operation
\* list, and no source name is in more than one operation.
C6_ClassifiedOnce ==
    (Returned /\ csv_stations # <<>>) =>
        LET s == sync_ret.summary IN
        /\ s.updated + s.created + s.skipped = Len(csv_stations)
        /\ s.total_requests = s.updated + s.created
        /\ s.total_requests = Len(sync_ret.http_requests)
        /\ \A i \in 1..Len(csv_stations) :
            Cardinality(OpsNamed(csv_stations[i].name)) <= 1

\* A run that updates one station, creates one and skips one.
C6_Witness ==
    /\ Returned
    /\ sync_ret.summary.updated = 1
    /\ sync_ret.summary.created = 1
    /\ sync_ret.summary.skipped = 1

\* The update operations of a name whose delta carries the source notes.
NotesUpdates(i) ==
    {k \in OpsOf(csv_stations[i].name, "update") :
        LET body == sync_ret.http_requests[k].request_body IN
        /\ "notes" \in DOMAIN body
        /\ body["notes"] = csv_stations[i].notes}

NotesInDelta(i) ==
    \E k \in OpsOf(csv_stations[i].name, "update") :
        "notes" \in DOMAIN sync_ret.http_requests[k].request_body

\* C7: for every matched station with a remote id, the update delta has
\* the key 'notes', with the source notes, if and only if the source notes
\* differ from the remote notes, null and '' being one value.
C7_NotesOverwritten ==
    sync_ret.called =>
        \A i \in MatchedStations :
            Remote(i).id # None =>
                /\ Or(csv_stations[i].notes, "") # Or(Remote(i).notes, "")
                      => NotesUpdates(i) # {}
                /\ Or(csv_stations[i].notes, "") = Or(Remote(i).notes, "")
                      => ~NotesInDelta(i)

\* The policy holds of the stations the water, medical and restroom
\* processors match with a truthy remote id.
C7_TruthyIdExceptShower ==
    (sync_ret.called /\ res # "shower") =>
        \A i \in MatchedStations :
            Truthy(Remote(i).id) =>
                /\ Or(csv_stations[i].notes, "") # Or(Remote(i).notes, "")
                      => NotesUpdates(i) # {}
                /\ Or(csv_stations[i].notes, "") = Or(Remote(i).notes, "")
                      => ~NotesInDelta(i)

\* What sync_source_to_db computes on the stations of the processor, for
\* every way the geocoder can answer its lookups.
SyncRuns ==
    {SyncResult(res, csv_stations, api_stations, oracle) :
        oracle \in Oracles(csv_stations)}

\* The pipeline has extracted its source and remote stations.
Extractions == pc \in {"sync_source_to_db", "done"}

\* C8 as stated: two runs of the pipeline on the same source and remote
\* stations produce the same operation list and the same counters.
C8_Determinism ==
    Extractions =>
        \A a, b \in SyncRuns :
            /\ a.http_requests = b.http_requests
            /\ a.summary = b.summary

\* C8: two runs of the pipeline on the same source and remote stations in
\* which the address lookups return the same answers produce the same
\* operation list and the same counters.
C8_DeterminismGivenLookups ==
    Extractions =>
        \A a, b \in SyncRuns :
            a.lookups = b.lookups =>
                /\ a.http_requests = b.http_requests
                /\ a.summary = b.summary

\* A run of the pipeline that looked up an address and emitted operations,
\* on stations for which the geocoder could have answered differently.
C8_Witness ==
    /\ pc = "done"
    /\ Returned
    /\ sync_ret \in SyncRuns
    /\ sync_ret.lookups # <<>>
    /\ sync_ret.http_requests # <<>>
    /\ Cardinality(SyncRuns) > 1

\* The fetch of extract_from_api failed: request error or timeout, error
\* status, or a body that is not JSON.
FetchFailed == fetch_ret.called /\ fetch_ret.response.outcome # "ok"

\* C9: when the remote fetch fails, the remote stations of the
\* reconciliation are empty and its operations are exactly one create per
\* source station, with updated = 0 and skipped = 0.
C9_FetchFailureCreatesAll ==
    FetchFailed =>
        /\ api_stations = <<>>
        /\ sync_ret.called =>
            /\ Returned
            /\ Len(sync_ret.http_requests) = Len(csv_stations)
            /\ \A i \in 1..Len(csv_stations) :
                Cardinality(OpsOf(csv_stations[i].name, "create")) = 1
            /\ sync_ret.summary.updated = 0
            /\ sync_ret.summary.skipped = 0

\* A reconciliation of two source stations after a failed fetch.
C9_Witness ==
    /\ FetchFailed
    /\ Returned
    /\ Len(csv_stations) = 2

\* C10: the remote fetch never raises: it returns a list for every outcome
\* of the request and every decoded body, and the empty list on a request
\* error, an error status or an undecodable body.
C10_FetchNeverRaises ==
    fetch_ret.called =>
        /\ fetch_ret.fetched.raised = "none"
        /\ fetch_ret.response.outcome # "ok" => fetch_ret.fetched.value = <<>>

\* The fetch returns the empty list on every failure of the request.
C10_FailuresCaught ==
    FetchFailed =>
        /\ fetch_ret.fetched.raised = "none"
        /\ fetch_ret.fetched.value = <<>>

\* The fetch of extract_from_api got a success response.
FetchSucceeded == fetch_ret.called /\ fetch_ret.response.outcome = "ok"

\* C11: for a successful response the fetch returns the 'member'
\* collection of a wrapper object, a bare list itself, and a one-element
\* list holding a single object without 'member'.
C11_ResponseShapes ==
    FetchSucceeded =>
        LET data == fetch_ret.response.body
            got == fetch_ret.fetched
        IN  /\ data.kind = "wrapper" =>
                got.raised = "none" /\ got.value = data.member
            /\ data.kind = "list" =>
                got.raised = "none" /\ got.value = data.elements
            /\ data.kind = "object" =>
                got.raised = "none" /\ got.value = <<data.object>>

\* The same property of the wrappers, the single objects and the lists
\* that do not hold the string 'member'.
C11_ExceptMemberElement ==
    (FetchSucceeded /\ (fetch_ret.response.body.kind = "list"
                            => ~MemberIn(fetch_ret.response.body))) =>
        C11_ResponseShapes

\* C12 as stated: in every state the operation log either holds the
\* complete operation list of the run or is as it was before the emission;
\* a partially written or truncated log is never there.
C12_LogAllOrNothing ==
    \/ log_file = NoFile
    \/ /\ sync_ret.called
       /\ log_file = [status |-> "complete", content |-> sync_ret.http_requests]

\* The same property of the calls whose write does not fail after the file
\* is opened.
C12_ExceptFailedDump ==
    (save_ret.called => save_ret.outcome # "dump_fails") => C12_LogAllOrNothing

\* C13: save_json_requests called with an empty list writes an empty log
\* and returns True when the file can be written, and returns False when it
\* cannot.
C13_EmptyListSaved ==
    (save_ret.called /\ save_ret.http_requests = <<>>) =>
        /\ save_ret.outcome = "ok" =>
            /\ save_ret.ret = TRUE
            /\ log_file = [status |-> "complete", content |-> <<>>]
        /\ save_ret.outcome # "ok" => save_ret.ret = FALSE

\* An empty operation list saved to a writable file.
C13_Witness ==
    /\ save_ret.called
    /\ save_ret.http_requests = <<>>
    /\ save_ret.outcome = "ok"
    /\ log_file = [status |-> "complete", content |-> <<>>]

\* C14: every station extract_from_csv produced has a latitude and a
\* longitude that are neither missing nor NaN and is built from a selected
\* placemark that has both, and every operation of sync_source_to_db is for
\* one of these stations: a placemark lacking a coordinate yields neither a
\* station nor an operation.
C14_StationsLocated ==
    Extracted =>
        /\ \A k \in 1..Len(csv_stations) :
            /\ ~IsNa(csv_stations[k].coordinates.lat)
            /\ ~IsNa(csv_stations[k].coordinates.lng)
            /\ \E i \in SelectedPlacemarks :
                /\ ~IsNa(placemarks[i].latitude)
                /\ ~IsNa(placemarks[i].longitude)
                /\ csv_stations[k] = NewStation(placemarks[i])
        /\ sync_ret.called =>
            \A k \in 1..Len(sync_ret.http_requests) :
                StationsNamed(sync_ret.http_requests[k].name) # {}

\* A selected placemark without longitude whose name has no station, in a
\* run that emitted an operation for another placemark.
C14_Witness ==
    /\ sync_ret.called
    /\ sync_ret.http_requests # <<>>
    /\ \E i \in SelectedPlacemarks :
        /\ IsNa(placemarks[i].longitude)
        /\ StationsNamed(placemarks[i].name) = {}

\* The selected placemarks extract_from_csv drops: no coordinates, or a
\* name an earlier selected placemark with coordinates has; and the ones
\* it has to accept.
Located(i) == ~MissingCoordinates(placemarks[i])

EarlierOfName(i) ==
    {j \in SelectedPlacemarks :
        j < i /\ Located(j) /\ placemarks[j].name = placemarks[i].name}

Defective(i) == ~Located(i) \/ EarlierOfName(i) # {}

Eligible(i) == Located(i) /\ EarlierOfName(i) = {}

StringNames == \A i \in 1..Len(placemarks) : placemarks[i].name # NaN

\* C17 as stated, on placemarks whose names are strings: when a selected
\* placemark is dropped for missing coordinates or for a duplicate name,
\* extract_from_csv completes and every selected placemark that has
\* coordinates and a name not accepted before it, earlier or later than the
\* dropped one, has its station in the result.
C17_DefectDropsOne ==
    (Extracted /\ StringNames) =>
        \A d \in SelectedPlacemarks :
            Defective(d) =>
                /\ raised = "none"
                /\ \A i \in SelectedPlacemarks :
                    Eligible(i) =>
                        \E k \in 1..Len(csv_stations) :
                            csv_stations[k] = NewStation(placemarks[i])

\* The same property of the water, medical and restroom processors.
C17_ExceptShower ==
    res # "shower" => C17_DefectDropsOne

\* The first selected placemark with coordinates that has the name.
FirstAccepted(name) ==
    FirstOf({i \in SelectedPlacemarks :
                Located(i) /\ placemarks[i].name = name})

\* C15: the stations of extract_from_csv stand in the order in which their
\* names are first accepted in the placemark list, and the operations of
\* sync_source_to_db stand in the order of the stations they are for,
\* whatever the order of the remote stations.
C15_SourceOrder ==
    /\ Extracted =>
        \A k, l \in 1..Len(csv_stations) :
            k < l => FirstAccepted(csv_stations[k].name)
                        < FirstAccepted(csv_stations[l].name)
    /\ Returned =>
        \A k, l \in 1..Len(sync_ret.http_requests) :
            k < l =>
                \E i, j \in 1..Len(csv_stations) :
                    /\ i < j
                    /\ csv_stations[i].name = sync_ret.http_requests[k].name
                    /\ csv_stations[j].name = sync_ret.http_requests[l].name

\* Two operations for two stations whose remote stations stand in the
\* opposite order.
C15_Witness ==
    /\ Returned
    /\ Len(sync_ret.http_requests) = 2
    /\ Len(api_stations) = 2
    /\ api_stations[1].name = sync_ret.http_requests[2].name
    /\ api_stations[2].name = sync_ret.http_requests[1].name
    /\ FirstAccepted(sync_ret.http_requests[1].name)
          < FirstAccepted(sync_ret.http_requests[2].name)

\* A processor block of main has run to its end.
PipelineEnded == pc = "done"

\* C16 as stated: when a resource pipeline that main runs on the placemarks
\* of a readable, non-empty file has run to its end, save_json_requests has
\* been called for that resource's operation log, also when no placemark
\* passed the filter and when the fetch failed.
C16_LogWritten ==
    (PipelineEnded /\ placemarks # <<>>) => save_ret.called

\* The same property of the pipelines whose extract_from_csv returned
\* stations.
C16_LogWhenStations ==
    (PipelineEnded /\ csv_stations # <<>>) => save_ret.called

\* C18: when read_from_csv has yielded no placemarks (file missing, empty,
\* without rows or unreadable), main has ended, no processor was
\* constructed, nothing was fetched or looked up, and no snapshot and no
\* operation log was written.
C18_NoPlacemarksNoRun ==
    (pc # "read_from_csv" /\ placemarks = <<>>) =>
        /\ pc \in {"returned", "crashed"}
        /\ res = "none"
        /\ ~fetch_ret.called
        /\ ~sync_ret.called
        /\ ~save_ret.called
        /\ snapshots = NoSnapshots
        /\ log_file = NoFile

\* main has returned after reading a file without any column, in the mode
\* that runs every processor.
C18_Witness ==
    /\ pc = "returned"
    /\ mode = "all"
    /\ input_file.kind = "empty_data"
    /\ placemarks = <<>>
    /\ res = "none"

\* C19: a failed write of a snapshot or of the operation log never ends the
\* run: no IOError leaves a writer, and at the end of every processor block
\* each output main asks for has been attempted (the source snapshot and
\* the operation log when there are source stations, the remote snapshot
\* when extract_from_api returned stations) and sync_source_to_db has
\* returned its counters; main returns only when no block of its mode is
\* left.
C19_WriteFailuresIsolated ==
    /\ raised # "IOError"
    /\ PipelineEnded =>
        /\ csv_stations # <<>> =>
            /\ snapshots.source.status # "absent"
            /\ Returned
            /\ {"updated", "created", "skipped"} \subseteq DOMAIN sync_ret.summary
            /\ save_ret.called
        /\ fetch_ret.ret # <<>> => snapshots.remote.status # "absent"
    /\ (pc = "returned" /\ placemarks # <<>> /\ mode # "csv") =>
        BlocksAhead(res, mode) = {}

\* The second processor block of a run in mode all has ended: its source
\* snapshot and its operation log failed to be written, its remote snapshot
\* was written and sync_source_to_db returned its counters.
C19_Witness ==
    /\ PipelineEnded
    /\ mode = "all"
    /\ res = "medical"
    /\ snapshots.source.status = "failed"
    /\ snapshots.remote.status = "written"
    /\ save_ret.called
    /\ ~save_ret.ret
    /\ Returned
    /\ sync_ret.summary.total_requests = Len(sync_ret.http_requests)

\* The addresses a delta of the station can carry: none, or an answer of
\* the lookup made for it.
DeltaAddresses(i) ==
    {None} \cup {sync_ret.lookups[j].address :
                    j \in {l \in 1..Len(sync_ret.lookups) :
                              sync_ret.lookups[l].name = csv_stations[i].name}}

\* The station has exactly one operation, an update with method PATCH sent
\* to the resource path followed by the id of its remote station, with the
\* delta as body.
UpdatedOnce(i) ==
    /\ OpsOf(csv_stations[i].name, "create") = {}
    /\ Cardinality(OpsOf(csv_stations[i].name, "update")) = 1
    /\ \A k \in OpsOf(csv_stations[i].name, "update") :
        /\ sync_ret.http_requests[k].http_method = "PATCH"
        /\ sync_ret.http_requests[k].url =
              BaseUrl \o ResourcePath[res] \o "/" \o Remote(i).id
        /\ "notes" \in DOMAIN sync_ret.http_requests[k].request_body
        /\ \E address \in DeltaAddresses(i) :
            sync_ret.http_requests[k].request_body =
                UpdateData(res, csv_stations[i], Remote(i), address)

\* C20 as stated, on the deltas that are non-empty because the notes
\* differ: every matched station whose remote station has an id, 0
\* included, gets exactly one update operation with that id in the URL and
\* the delta as body, and the counter 'updated' returned is the number of
\* update operations.
C20_MatchedUpdated ==
    sync_ret.called =>
        /\ \A i \in MatchedStations :
            (Remote(i).id # None /\ NotesDiffer(csv_stations[i], Remote(i)))
                => UpdatedOnce(i)
        /\ Returned => sync_ret.summary.updated = Cardinality(UpdateOps)

\* The same property of the stations the water, medical and restroom
\* processors match with a remote id that is not falsy.
C20_TruthyIdExceptShower ==
    (sync_ret.called /\ res # "shower") =>
        /\ \A i \in MatchedStations :
            (Truthy(Remote(i).id) /\ NotesDiffer(csv_stations[i], Remote(i)))
                => UpdatedOnce(i)
        /\ Returned => sync_ret.summary.updated = Cardinality(UpdateOps)

\* The filter as the comments of extract_from_csv describe it: the folder
\* is the resource's folder or the name contains the resource's keyword.
FolderOrKeyword(i) ==
    \/ placemarks[i].folder = FolderMatch[res]
    \/ Contains(Keyword[res], placemarks[i].name)

\* C21 as stated, seen on the stations of a completed extract_from_csv over
\* placemarks with string names: a placemark with coordinates has a station
\* of its name if and only if its folder is the resource's folder or its
\* name contains the resource's keyword.
C21_FolderOrKeyword ==
    (Extracted /\ raised = "none" /\ StringNames) =>
        /\ \A i \in 1..Len(placemarks) :
            (FolderOrKeyword(i) /\ Located(i)) =>
                StationsNamed(placemarks[i].name) # {}
        /\ \A k \in 1..Len(csv_stations) :
            \E i \in 1..Len(placemarks) :
                /\ FolderOrKeyword(i)
                /\ placemarks[i].name = csv_stations[k].name

\* The same property of the medical, restroom and shower processors.
C21_ExceptWater ==
    res # "water" => C21_FolderOrKeyword

\* The geocoder answered every lookup the run made.
AllLookupsAnswered ==
    \A j \in 1..Len(sync_ret.lookups) : sync_ret.lookups[j].address # None

\* The lookups of the run that returned an address for the station.
AnsweredFor(i) ==
    {j \in 1..Len(sync_ret.lookups) :
        /\ sync_ret.lookups[j].name = csv_stations[i].name
        /\ sync_ret.lookups[j].address # None}

\* The update of the station carries the address looked up from its
\* coordinates, under the address key of the resource.
AddressFilled(i) ==
    \E k \in OpsOf(csv_stations[i].name, "update") :
        LET body == sync_ret.http_requests[k].request_body IN
        /\ AddressKey(res) \in DOMAIN body
        /\ body[AddressKey(res)] =
              GetAddressFromCoordinates(csv_stations[i].coordinates.lat,
                                        csv_stations[i].coordinates.lng, "ok")

\* The fill-if-empty policy for the remote addresses in E: in a run that
\* returns and whose lookups are all answered, a station matched with an
\* id, with non-zero coordinates and a remote address in E has the looked-up
\* address in its delta; and a station without an answered lookup has no
\* address key in its delta.
FillIfEmpty(E) ==
    /\ (Returned /\ AllLookupsAnswered) =>
        \A i \in MatchedStations :
            (/\ Truthy(Remote(i).id)
             /\ Remote(i).address \in E
             /\ Truthy(csv_stations[i].coordinates.lat)
             /\ Truthy(csv_stations[i].coordinates.lng)) => AddressFilled(i)
    /\ Returned =>
        \A i \in MatchedStations :
            AnsweredFor(i) = {} =>
                \A k \in OpsOf(csv_stations[i].name, "update") :
                    AddressKeys \cap DOMAIN sync_ret.http_requests[k].request_body = {}

\* C22 as stated: the policy holds for every resource with the remote
\* addresses null, empty, blank and '-'.
C22_FillIfEmpty == FillIfEmpty({None, "", " ", "-"})

\* The policy holds when '-' counts as empty for the restroom and shower
\* processors only.
C22_PlaceholderWhereTested ==
    FillIfEmpty({None, "", " "}
                \cup (IF res \in {"restroom", "shower"} THEN {"-"} ELSE {}))

\* The update operations of the station whose delta has the key
\* 'coordinates' with the source pair.
CoordinatesUpdates(i) ==
    {k \in OpsOf(csv_stations[i].name, "update") :
        LET body == sync_ret.http_requests[k].request_body IN
        /\ "coordinates" \in DOMAIN body
        /\ body["coordinates"] = [lat |-> csv_stations[i].coordinates.lat,
                                  lng |-> csv_stations[i].coordinates.lng]}

CoordinatesInDelta(i) ==
    \E k \in OpsOf(csv_stations[i].name, "update") :
        "coordinates" \in DOMAIN sync_ret.http_requests[k].request_body

SourcePairDiffers(i) ==
    \/ csv_stations[i].coordinates.lat # Remote(i).lat
    \/ csv_stations[i].coordinates.lng # Remote(i).lng

\* The coordinate policy on the matched stations in M.
CoordinatePolicy(M) ==
    sync_ret.called =>
        /\ res = "medical" =>
            \A i \in M :
                /\ SourcePairDiffers(i) => CoordinatesUpdates(i) # {}
                /\ ~SourcePairDiffers(i) => ~CoordinatesInDelta(i)
        /\ res # "medical" =>
            \A k \in UpdateOps :
                "coordinates" \notin DOMAIN sync_ret.http_requests[k].request_body

\* C23 as stated: in the medical processor every station matched with a
\* truthy remote id has 'coordinates', set to the source pair, in its delta
\* if and only if the source pair differs from the remote pair, 0 being a
\* coordinate like any other; the other processors never put 'coordinates'
\* in a delta.
C23_CoordinatesCorrected ==
    CoordinatePolicy({i \in MatchedStations : Truthy(Remote(i).id)})

\* The same property of the stations whose source coordinates are both
\* non-zero.
C23_NonZeroCoordinates ==
    CoordinatePolicy({i \in MatchedStations :
                        /\ Truthy(Remote(i).id)
                        /\ Truthy(csv_stations[i].coordinates.lat)
                        /\ Truthy(csv_stations[i].coordinates.lng)})

\* The source stations a lookup of the run can be for, by name.
StationsOf(j) ==
    {i \in 1..Len(csv_stations) :
        csv_stations[i].name = sync_ret.lookups[j].name}

\* The station is matched with a remote id and its remote address is null,
\* empty, blank or '-'.
FillApplies(i) ==
    /\ i \in MatchedStations
    /\ Remote(i).id # None
    /\ Remote(i).address \in {None, "", " ", "-"}

LookupsOncePerStation ==
    \A j, l \in 1..Len(sync_ret.lookups) :
        sync_ret.lookups[j].name = sync_ret.lookups[l].name => j = l

\* C24 as stated: every address lookup of a run is for a source station
\* matched with a remote id whose remote address is empty, blank or the
\* placeholder, and no station has two lookups.
C24_LookupsOnlyToFill ==
    sync_ret.called =>
        /\ \A j \in 1..Len(sync_ret.lookups) :
            \E i \in StationsOf(j) : FillApplies(i)
        /\ LookupsOncePerStation

\* C24: every address lookup of a run is for a source station matched with
\* a remote id whose remote address is empty, blank or the placeholder, or
\* for an unmatched source station, whose create payload takes the address;
\* and no station has two lookups.
C24_LookupsToFillOrCreate ==
    sync_ret.called =>
        /\ \A j \in 1..Len(sync_ret.lookups) :
            \E i \in StationsOf(j) : FillApplies(i) \/ i \in UnmatchedStations
        /\ LookupsOncePerStation

\* A run with a lookup for a matched station and a lookup for an unmatched
\* one, next to a matched station that got none.
C24_Witness ==
    /\ Returned
    /\ \E j, l \in 1..Len(sync_ret.lookups) :
        /\ \E i \in StationsOf(j) : FillApplies(i)
        /\ \E i \in StationsOf(l) : i \in UnmatchedStations
    /\ \E i \in MatchedStations :
        \A j \in 1..Len(sync_ret.lookups) : i \notin StationsOf(j)

\* The raw items of the response and the coordinates of item k.
RawItemsFetched == fetch_ret.response.body.elements

RawCoordinates(k) == RawItemsFetched[k].coordinates

\* The value carries a latitude and a longitude that are both numbers.
CarriesPair(c) ==
    /\ c.form \in {"lat_lng", "latitude_longitude", "string"}
    /\ IsFloatText(c.lat)
    /\ IsFloatText(c.lng)

Converted == fetch_ret.called /\ raised = "none"

\* The values that are absent, a string, or carry a pair of numbers out of
\* P.
WellFormed(P) ==
    {c \in CoordinateValues :
        \/ c.form \in {"absent", "string"}
        \/ (CarriesPair(c) /\ c.lat \in P /\ c.lng \in P)}

\* The coordinates of the converted stations of the resources in R: for a
\* raw value that carries a pair out of P the station holds that pair,
\* whatever the form; for a raw value in V the station holds both
\* coordinates or none; a string that is not two numbers gives none, and
\* the conversion returns a station for every item.
CoordinatesNormalized(R, P, V) ==
    (fetch_ret.called /\ res \in R) =>
        /\ raised = "none"
        /\ Len(api_stations) = Len(RawItemsFetched)
        /\ \A k \in 1..Len(api_stations) :
            LET c == RawCoordinates(k) IN
            /\ (CarriesPair(c) /\ c.lat \in P /\ c.lng \in P) =>
                  /\ api_stations[k].lat = c.lat
                  /\ api_stations[k].lng = c.lng
            /\ c \in V =>
                  (api_stations[k].lat = None <=> api_stations[k].lng = None)
            /\ (c.form = "string" /\ ~CarriesPair(c)) =>
                  /\ api_stations[k].lat = None
                  /\ api_stations[k].lng = None

\* C25 as stated: for every resource and every coordinate value.
C25_CoordinatesNormalized ==
    CoordinatesNormalized(Resources, Numerals, CoordinateValues)

\* The same property of the water, restroom and shower processors on pairs
\* without a zero.
C25_NonZeroExceptMedical ==
    CoordinatesNormalized(Resources \ {"medical"}, Numerals \ {"0"},
                          WellFormed(Numerals \ {"0"}))

\* The create operation of every unmatched station carries the station's
\* name, coordinates and notes.
CreateCarriesStation ==
    sync_ret.called =>
        \A i \in UnmatchedStations :
            \A k \in OpsOf(csv_stations[i].name, "create") :
                LET body == sync_ret.http_requests[k].request_body IN
                /\ body.name = csv_stations[i].name
                /\ body.coordinates = [lat |-> csv_stations[i].coordinates.lat,
                                       lng |-> csv_stations[i].coordinates.lng]
                /\ "notes" \in DOMAIN body
                /\ body["notes"] = csv_stations[i].notes

\* C26 as stated: for every resource the request_body of a create
\* operation contains the source station's name, coordinates and notes.
C26_CreateCarriesStation == CreateCarriesStation

\* The same property of the water and medical processors.
C26_WaterAndMedical ==
    res \in {"water", "medical"} => CreateCarriesStation

\* An operation of the restroom algorithm, with the resource path and the
\* defaults of the shower resource.
AsShower(op) ==
    IF op.action = "create"
    THEN [op EXCEPT !.url = BaseUrl \o ResourcePath["shower"] \o "/",
                    !.request_body =
                        [@ EXCEPT !.facility_type = "shower_station"]]
    ELSE [op EXCEPT !.url = BaseUrl \o ResourcePath["shower"] \o "/"
                                \o LastWithName(api_stations, op.name).id]

\* What the restroom algorithm computes on the stations of the processor.
RestroomRuns ==
    {SyncResult("restroom", csv_stations, api_stations, oracle) :
        oracle \in Oracles(csv_stations)}

\* C27 as stated, for sync_source_to_db: a run of the shower processor
\* ends without error and its operations, counters and lookups are those
\* of a run of the restroom algorithm on the same stations, with the shower
\* path in the URLs and the shower defaults in the create payloads.
C27_ShowerAsRestroom ==
    (sync_ret.called /\ res = "shower") =>
        \E run \in RestroomRuns :
            /\ sync_ret.raised = "none"
            /\ run.raised = "none"
            /\ sync_ret.summary = run.summary
            /\ sync_ret.lookups = run.lookups
            /\ sync_ret.http_requests =
                  [k \in 1..Len(run.http_requests) |-> AsShower(run.http_requests[k])]

\* The remote stations that carry the name of source station i, by their
\* position in the remote list, and the one at the last position.
Duplicates(i) ==
    {k \in 1..Len(api_stations) : api_stations[k].name = csv_stations[i].name}

LastDuplicate(i) ==
    api_stations[CHOOSE k \in Duplicates(i) : \A j \in Duplicates(i) : j <= k]

\* C28: a source station whose name several remote stations carry is
\* matched with the last of them in remote order: its update, if any, has
\* that station's id in the URL and the keys the comparison with that
\* station gives; it has no update when that station has no id, and it has
\* one when the run returns, that station has an id and its notes differ.
C28_LastDuplicateWins ==
    sync_ret.called =>
        \A i \in MatchedStations :
            LET last == LastDuplicate(i)
                src == csv_stations[i]
                updates == OpsOf(src.name, "update")
            IN
            /\ ~Truthy(last.id) => updates = {}
            /\ (Returned /\ Truthy(last.id) /\ NotesDiffer(src, last))
                    => updates # {}
            /\ \A k \in updates :
                LET op == sync_ret.http_requests[k] IN
                /\ op.url = UpdateUrl(res, last.id)
                /\ "notes" \in DOMAIN op.request_body <=> NotesDiffer(src, last)
                /\ AddressKey(res) \in DOMAIN op.request_body
                        => AddressEmpty(res, last.address)
                /\ "coordinates" \in DOMAIN op.request_body
                        <=> (res = "medical" /\ CoordinatesDiffer(src, last))

\* A run that updates a station whose name two different remote stations
\* carry, the earlier one without an id or with other notes.
C28_Witness ==
    /\ Returned
    /\ \E i \in MatchedStations :
        /\ OpsOf(csv_stations[i].name, "update") # {}
        /\ \E j \in Duplicates(i) :
            /\ api_stations[j] # LastDuplicate(i)
            /\ \/ ~Truthy(api_stations[j].id)
               \/ NotesDiffer(csv_stations[i], api_stations[j])
                    # NotesDiffer(csv_stations[i], LastDuplicate(i))

\* sync_source_to_db has just returned, and the extract_from_api call
\* before it returned [].
SyncAfterEmptyFetch ==
    /\ pc = "done"
    /\ Returned
    /\ fetch_ret.called
    /\ fetch_ret.ret = <<>>

EveryStationCreated ==
    /\ \A k \in 1..Len(sync_ret.http_requests) :
            sync_ret.http_requests[k].action = "create"
    /\ \A i \in 1..Len(csv_stations) :
            Cardinality(OpsOf(csv_stations[i].name, "create")) = 1
    /\ csv_stations # <<>> =>
            /\ sync_ret.summary.created = Len(csv_stations)
            /\ sync_ret.summary.updated = 0
            /\ sync_ret.summary.skipped = 0

\* C29 as stated: on an instance that is called again and again, a
\* sync_source_to_db that follows an extract_from_api which returned []
\* reconciles against no remote station: every source station is created,
\* none is updated or skipped.
C29_EmptyFetchEmptiesRemote ==
    SyncAfterEmptyFetch => EveryStationCreated

\* The same property of an instance on which no fetch has succeeded
\* before.
C29_NothingRetained ==
    (SyncAfterEmptyFetch /\ api_stations = <<>>) => EveryStationCreated

\* extract_from_csv returned, and every selected placemark that has
\* coordinates and a name not accepted before it has its station in the
\* result.
ExtractionCompletes ==
    /\ raised = "none"
    /\ \A i \in SelectedPlacemarks :
        Eligible(i) =>
            \E k \in 1..Len(csv_stations) :
                csv_stations[k] = NewStation(placemarks[i])

\* C30 as stated, on the placemark lists that hold a placemark whose name
\* cell is blank (read as NaN): extract_from_csv of every processor
\* returns its stations, and the placemarks after the blank one are
\* processed.
C30_BlankNameTolerated ==
    (Extracted /\ ~StringNames) => ExtractionCompletes

\* The water, medical and restroom processors return their stations when
\* every name is a string, and the medical and restroom processors also
\* when the placemarks without a name are in their own folder.
C30_NoFilterError ==
    (/\ Extracted
     /\ res # "shower"
     /\ \A i \in 1..Len(placemarks) : ~FilterRaises(res, placemarks[i]))
        => ExtractionCompletes

====
